---- MODULE Spec2Model ----
(***************************************************************************)
(* analyze_phone_pii.py: the query classifier find_phone_pattern_in_query  *)
(* and the consolidation of the matching rows of the six audit-log CSV     *)
(* files (process_csv_file, main).                                         *)
(*                                                                         *)
(* A text is a sequence of one-character strings.  An offset i of a text s *)
(* is the place between s[i] and s[i+1] (0 = before the first character),  *)
(* as in Python's re module.  An optional value is a pair: None, or        *)
(* Some(v).                                                                *)
(***************************************************************************)
EXTENDS Integers, Sequences, FiniteSets, TLC

VARIABLES
    query_text,         \* the argument of find_phone_pattern_in_query
    result,             \* its return value, once it has returned
    cpc,                \* "call" before the call, "ret" after it
    pc,                 \* where main is: "loop", "rows", "done", "failed"
    file_index,         \* the index in csv_files of the file main is at
    disk,               \* the files as the run has found them
    header,             \* reader.fieldnames of the open file
    row,                \* the row the reader yielded last
    rows_read,          \* how many rows the open file has yielded
    matching_rows,      \* process_csv_file's list of (row, pattern)
    error_logged,       \* the exception line 113 reported for this file
    fieldnames,         \* main's output schema, None until set
    all_matching_rows,  \* main's accumulated output rows
    output              \* pii_phone_number_logs.csv, None until opened

cvars == <<query_text, result, cpc>>
mvars == <<pc, file_index, disk, header, row, rows_read, matching_rows,
           error_logged, fieldnames, all_matching_rows, output>>
vars == <<cvars, mvars>>

----------------------------------------------------------------------------
(* Optional values and small helpers *)

None == <<"None", <<>>>>
Some(v) == <<"Some", v>>

Min(S) == CHOOSE x \in S : \A y \in S : x <= y
Max(S) == CHOOSE x \in S : \A y \in S : y <= x

RECURSIVE Concat(_)
Concat(ss) == IF ss = <<>> THEN <<>> ELSE Head(ss) \o Concat(Tail(ss))

----------------------------------------------------------------------------
(* Characters: str.lower(), and the classes \w and \s of the re module *)

UpperChars == <<"A","B","C","D","E","F","G","H","I","J","K","L","M","N","O","P","Q","R","S","T","U","V","W","X","Y","Z">>
LowerChars == <<"a","b","c","d","e","f","g","h","i","j","k","l","m","n","o","p","q","r","s","t","u","v","w","x","y","z">>
Digits == {"0", "1", "2", "3", "4", "5", "6", "7", "8", "9"}

WordChars == {UpperChars[i] : i \in 1..26} \cup {LowerChars[i] : i \in 1..26}
                 \cup Digits \cup {"_"}
SpaceChars == {" ", "\t", "\n"}

(* the backtick, which a TLA+ string cannot hold *)
Backtick == "BACKTICK"

LowerChar(c) ==
    IF \E i \in 1..26 : UpperChars[i] = c
    THEN LowerChars[CHOOSE i \in 1..26 : UpperChars[i] = c]
    ELSE c

lower(s) == [i \in 1..Len(s) |-> LowerChar(s[i])]

(* \b at offset i: exactly one of s[i], s[i+1] is a word character *)
IsWordAt(s, i) == i >= 1 /\ i <= Len(s) /\ s[i] \in WordChars
Boundary(s, i) == IsWordAt(s, i) # IsWordAt(s, i + 1)

(* a literal of the pattern (written in lower case) at offset i, under     *)
(* re.IGNORECASE                                                           *)
LitAt(s, i, lit) ==
    /\ i + Len(lit) <= Len(s)
    /\ \A j \in 1..Len(lit) : LowerChar(s[i + j]) = lit[j]

NoMatch == <<-1, -1>>

----------------------------------------------------------------------------
(* PHONE_PATTERNS: \b lit \b, the first with (?:_\w+)? before the last \b *)

PHONE_PATTERNS == <<
    [lit |-> <<"t","o","_","c","o","n","t","a","c","t">>, suffix |-> TRUE],
    [lit |-> <<"p","h","o","n","e">>, suffix |-> FALSE],
    [lit |-> <<"m","o","b","i","l","e">>, suffix |-> FALSE],
    [lit |-> <<"c","e","l","l">>, suffix |-> FALSE],
    [lit |-> <<"t","e","l">>, suffix |-> FALSE],
    [lit |-> <<"c","o","n","t","a","c","t","_","n","u","m","b","e","r">>, suffix |-> FALSE],
    [lit |-> <<"p","h","o","n","e","_","n","u","m","b","e","r">>, suffix |-> FALSE],
    [lit |-> <<"h","a","n","d","p","h","o","n","e">>, suffix |-> FALSE],
    [lit |-> <<"h","p","_","n","u","m","b","e","r">>, suffix |-> FALSE],
    [lit |-> <<"t","e","l","e","p","h","o","n","e">>, suffix |-> FALSE],
    [lit |-> <<"t","e","l","e","p","h","o","n","e","_","n","u","m","b","e","r">>, suffix |-> FALSE],
    [lit |-> <<"c","o","n","t","a","c","t","_","p","h","o","n","e">>, suffix |-> FALSE],
    [lit |-> <<"c","u","s","t","o","m","e","r","_","p","h","o","n","e">>, suffix |-> FALSE],
    [lit |-> <<"r","e","c","i","p","i","e","n","t","_","p","h","o","n","e">>, suffix |-> FALSE],
    [lit |-> <<"s","e","n","d","e","r","_","p","h","o","n","e">>, suffix |-> FALSE],
    [lit |-> <<"p","h","o","n","e","_","n","o">>, suffix |-> FALSE],
    [lit |-> <<"m","o","b","i","l","e","_","n","o">>, suffix |-> FALSE],
    [lit |-> <<"p","h","o","n","e","_","n","u","m">>, suffix |-> FALSE],
    [lit |-> <<"m","o","b","i","l","e","_","n","u","m">>, suffix |-> FALSE] >>

(* The end offset of the match of column pattern p that starts at offset   *)
(* i, or -1.  The optional group is greedy: it is taken, with the longest  *)
(* \w+ that leaves a \b behind it, before it is skipped.                   *)
ColumnMatchEnd(p, s, i) ==
    IF ~(Boundary(s, i) /\ LitAt(s, i, p.lit)) THEN -1
    ELSE LET j == i + Len(p.lit)
             taken == {e \in (j + 2)..Len(s) :
                          /\ p.suffix
                          /\ s[j + 1] = "_"
                          /\ \A k \in (j + 2)..e : s[k] \in WordChars
                          /\ Boundary(s, e)}
         IN  IF taken # {} THEN Max(taken)
             ELSE IF Boundary(s, j) THEN j
             ELSE -1

(* re.search(pattern, query_text, re.IGNORECASE): the leftmost match, as   *)
(* <<start, end>>, or NoMatch                                              *)
ColumnSearch(p, s) ==
    LET starts == {i \in 0..Len(s) : ColumnMatchEnd(p, s, i) >= 0}
    IN  IF starts = {} THEN NoMatch
        ELSE <<Min(starts), ColumnMatchEnd(p, s, Min(starts))>>

(* the text-order variant: the pattern whose match starts leftmost wins *)
first_column_match_in_text_order(s) ==
    LET hits == {k \in 1..Len(PHONE_PATTERNS) :
                    ColumnSearch(PHONE_PATTERNS[k], s) # NoMatch}
    IN  IF hits = {} THEN None
        ELSE LET k == CHOOSE k \in hits : \A h \in hits :
                          \/ ColumnSearch(PHONE_PATTERNS[k], s)[1]
                               < ColumnSearch(PHONE_PATTERNS[h], s)[1]
                          \/ /\ ColumnSearch(PHONE_PATTERNS[k], s)[1]
                                  = ColumnSearch(PHONE_PATTERNS[h], s)[1]
                             /\ k <= h
                 m == ColumnSearch(PHONE_PATTERNS[k], s)
             IN  Some(SubSeq(s, m[1] + 1, m[2]))

(* for pattern in PHONE_PATTERNS: the first pattern of the list with a     *)
(* match returns match.group(0)                                            *)
first_column_match(s) ==
    LET hits == {k \in 1..Len(PHONE_PATTERNS) :
                    ColumnSearch(PHONE_PATTERNS[k], s) # NoMatch}
    IN  IF hits = {} THEN None
        ELSE LET m == ColumnSearch(PHONE_PATTERNS[Min(hits)], s)
             IN  Some(SubSeq(s, m[1] + 1, m[2]))

----------------------------------------------------------------------------
(* The SELECT gate and the SELECT * test, both on query_lower *)

SelectLit == <<"s","e","l","e","c","t">>
FromLit == <<"f","r","o","m">>

(* the gate that lets any text through *)
has_select_never_checked(s) == TRUE

(* re.search(r'\bselect\b', query_lower, re.IGNORECASE) *)
has_select(s) ==
    \E i \in 0..Len(s) :
        /\ Boundary(s, i)
        /\ LitAt(s, i, SelectLit)
        /\ Boundary(s, i + Len(SelectLit))

(* re.search(r'select\s+\*', query_lower, re.IGNORECASE) *)
has_select_star(s) ==
    \E i \in 0..Len(s) :
        /\ LitAt(s, i, SelectLit)
        /\ \E k \in 1..Len(s) :
              /\ i + Len(SelectLit) + k + 1 <= Len(s)
              /\ \A j \in 1..k : s[i + Len(SelectLit) + j] \in SpaceChars
              /\ s[i + Len(SelectLit) + k + 1] = "*"

----------------------------------------------------------------------------
(* PHONE_TABLES.  The first entry is written r'\to_contact?\b': \t is the  *)
(* TAB character, so the pattern is TAB, "o_contac", an optional "t" and   *)
(* \b, with no \b in front.  The others are \b lit opt? \b.  The call      *)
(* table_pattern.replace(r"\\", "") removes pairs of backslashes, of which *)
(* no pattern has any: the patterns are used as they are.                  *)

PHONE_TABLES == <<
    [lead_b |-> FALSE, lit |-> <<"\t","o","_","c","o","n","t","a","c">>, opt |-> <<"t">>],
    [lead_b |-> TRUE, lit |-> <<"c","o","n","t","a","c","t">>, opt |-> <<"s">>],
    [lead_b |-> TRUE, lit |-> <<"a","d","d","r","e","s","s","e">>, opt |-> <<"s">>],
    [lead_b |-> TRUE, lit |-> <<"r","e","c","i","p","i","e","n","t">>, opt |-> <<"s">>],
    [lead_b |-> TRUE, lit |-> <<"s","e","n","d","e","r">>, opt |-> <<"s">>],
    [lead_b |-> TRUE, lit |-> <<"u","s","e","r","_","c","o","n","t","a","c","t">>, opt |-> <<"s">>],
    [lead_b |-> TRUE, lit |-> <<"c","u","s","t","o","m","e","r","_","c","o","n","t","a","c","t">>, opt |-> <<"s">>],
    [lead_b |-> TRUE, lit |-> <<"c","o","n","t","a","c","t","_","i","n","f","o">>, opt |-> <<>>] >>

QuoteChars == {Backtick, "\""}
(* the characters [^\s,`"] admits *)
IsTokenChar(c) == c \notin SpaceChars \cup {","} \cup QuoteChars

(* the table pattern tp matches from offset a to offset b *)
TableLitMatch(tp, s, a, b) ==
    /\ tp.lead_b => Boundary(s, a)
    /\ LitAt(s, a, tp.lit)
    /\ \/ b = a + Len(tp.lit)
       \/ /\ tp.opt # <<>>
          /\ b = a + Len(tp.lit) + 1
          /\ LitAt(s, a + Len(tp.lit), tp.opt)
    /\ Boundary(s, b)

(* the end of the longest run of token characters that starts at offset b *)
TokenRunEnd(s, b) ==
    Max({e \in b..Len(s) : \A k \in (b + 1)..e : IsTokenChar(s[k])})

(* The matches of the table regular expression that start at offset i:     *)
(* \bfrom, \s+, group 1 (an optional quote), group 2 (token characters,    *)
(* the table pattern tp, token characters) and \1.  <<k, q, a, b>> is k     *)
(* characters of \s+, q = 1 when group 1 takes a quote, and tp matching     *)
(* from a to b.  The last run of token characters is greedy and            *)
(* backtracking it never helps \1: a shorter run is followed by a token    *)
(* character, which is no quote.                                           *)
TableCandidates(tp, s, i) ==
    IF ~(Boundary(s, i) /\ LitAt(s, i, FromLit)) THEN {}
    ELSE LET f == i + Len(FromLit)
             ks == {k \in 1..(Len(s) - f) :
                       \A j \in 1..k : s[f + j] \in SpaceChars}
             qs(k) == IF f + k + 1 <= Len(s) /\ s[f + k + 1] \in QuoteChars
                      THEN {0, 1} ELSE {0}
             shapes == UNION {UNION {
                 {<<k, q, a, a + Len(tp.lit) + d>> :
                      a \in (f + k + q)..TokenRunEnd(s, f + k + q),
                      d \in {0, 1}} :
                 q \in qs(k)} : k \in ks}
         IN  {c \in shapes :
                LET g == f + c[1] + c[2]
                    e == TokenRunEnd(s, c[4])
                IN  /\ TableLitMatch(tp, s, c[3], c[4])
                    /\ c[2] = 1 => (e + 1 <= Len(s) /\ s[e + 1] = s[g])}

(* the order in which the backtracking matcher tries them: the longest     *)
(* \s+, then the quote taken, then the longest first run, then the         *)
(* optional last letter taken                                              *)
TablePriority(s, c) ==
    ((c[1] * 2 + c[2]) * (Len(s) + 1) + c[3]) * (Len(s) + 2) + c[4]

(* group(2) of the match that starts at offset i *)
TableGroup2(tp, s, i) ==
    LET cands == TableCandidates(tp, s, i)
        c == CHOOSE c \in cands : \A d \in cands :
                     TablePriority(s, d) <= TablePriority(s, c)
        g == i + Len(FromLit) + c[1] + c[2]
    IN  SubSeq(s, g + 1, TokenRunEnd(s, c[4]))

(* re.search of the table regular expression: group(2) of the leftmost     *)
(* match, or None                                                          *)
TableSearch(tp, s) ==
    LET starts == {i \in 0..Len(s) : TableCandidates(tp, s, i) # {}}
    IN  IF starts = {} THEN None
        ELSE Some(TableGroup2(tp, s, Min(starts)))

SelectStarFrom == <<"S","E","L","E","C","T"," ","*"," ","f","r","o","m"," ">>

(* for table_pattern in PHONE_TABLES: the first with a match returns       *)
(* f"SELECT * from {table_match.group(2)}"                                 *)
first_table_match(s) ==
    LET hits == {k \in 1..Len(PHONE_TABLES) :
                    TableSearch(PHONE_TABLES[k], s) # None}
    IN  IF hits = {} THEN None
        ELSE Some(SelectStarFrom \o TableSearch(PHONE_TABLES[Min(hits)], s)[2])

----------------------------------------------------------------------------
(* find_phone_pattern_in_query(query_text): query_text is None or Some     *)
(* text; the return value is None or Some text                             *)

find_phone_pattern_in_query(q) ==
    IF q = None \/ q[2] = <<>> THEN None
    ELSE LET s == q[2]
             query_lower == lower(s)
         IN  IF ~has_select(query_lower) THEN None
             ELSE IF first_column_match(s) # None THEN first_column_match(s)
             ELSE IF has_select_star(query_lower) THEN first_table_match(s)
             ELSE None

----------------------------------------------------------------------------
(* The input files and their rows *)

csv_files == <<"execute_query_05.csv", "execute_query_06.csv",
               "execute_query_07.csv", "query_results_05.csv",
               "query_results_06.csv", "query_results_07.csv">>
NumFiles == Len(csv_files)

MatchedColumn == "matched_phone_pattern"
PropsColumn == "additional_properties"

(* the header lines the files may have; the third has no                   *)
(* additional_properties column                                            *)
Header1 == <<"id", "additional_properties">>
Header2 == <<"id", "additional_properties", "created_at">>
Header3 == <<"id", "created_at">>
Headers == {Header1, Header2, Header3}

(* the literal header line 182 writes *)
DefaultHeader == <<"id", "org_id", "user_id", "action", "object_type",
                   "object_id", "additional_properties", "created_at",
                   "matched_phone_pattern">>

Range(f) == {f[i] : i \in DOMAIN f}

(* the query texts of the rows *)
Query1 == <<"S","E","L","E","C","T"," ","p","h","o","n","e"," ","F","R","O","M"," ","u","s","e","r","s">>
Query2 == <<"s","e","l","e","c","t"," ","*"," ","f","r","o","m"," ","c","o","n","t","a","c","t","s">>

(* The additional_properties cell of a row: the value None (a row shorter  *)
(* than the header, which csv.DictReader fills with None), or a text that  *)
(* is no JSON at all, a JSON array, or a JSON object whose "query" member  *)
(* is absent or a text.                                                    *)
Absent == <<"Absent", <<>>>>
NoCell == [json |-> "None", query |-> Absent]
Malformed == [json |-> "malformed", query |-> Absent]
ArrayText == [json |-> "array", query |-> Absent]
ObjectText(q) == [json |-> "object", query |-> q]
Cells == {NoCell, Malformed, ArrayText, ObjectText(Absent),
          ObjectText(Some(Query1)), ObjectText(Some(Query2))}

(* a row of a file with header h: csv.DictReader's dict, keys in header    *)
(* order; a file without the column has no such cell                       *)
LogRow(h, cell) == [keys |-> h, props |-> cell]
CellsOf(h) == IF PropsColumn \in Range(h) THEN Cells ELSE {NoCell}

(* the classifier's verdict on the query texts the rows hold *)
RowQueries == {Some(<<>>), Some(Query1), Some(Query2)}
Verdicts == [q \in RowQueries |-> find_phone_pattern_in_query(q)]

(* what the model keeps of a file: not visited yet, missing, present with  *)
(* no header line to read (empty or undecodable), or present with a header *)
Unvisited == <<"Unvisited", <<>>>>
Missing == <<"Missing", <<>>>>
NoHeader == <<"NoHeader", <<>>>>
WithHeader(h) == <<"Header", h>>
NothingKnown == [i \in 1..NumFiles |-> Unvisited]

----------------------------------------------------------------------------
(* The bounds of the runs *)

MaxRows == 2        \* rows a file yields at most
MaxMatches == 2     \* matching rows of a whole run at most

----------------------------------------------------------------------------
(* process_csv_file: the body of the row loop, lines 99-110 *)

(* json.loads(text): the exception it raises ("" for none) and its value *)
json_loads(cell) ==
    IF cell.json = "None" THEN [exc |-> "TypeError", value |-> cell]
    ELSE IF cell.json = "malformed"
    THEN [exc |-> "JSONDecodeError", value |-> cell]
    ELSE [exc |-> "", value |-> cell]

(* lines 101-105: row.get('additional_properties', '{}'), json.loads,      *)
(* additional_props.get('query', ''), find_phone_pattern_in_query          *)
row_body(r) ==
    LET text == IF PropsColumn \in Range(r.keys) THEN r.props
                ELSE ObjectText(Absent)
        loaded == json_loads(text)
    IN  IF loaded.exc # "" THEN [exc |-> loaded.exc, pattern |-> None]
        ELSE IF loaded.value.json # "object"
        THEN [exc |-> "AttributeError", pattern |-> None]
        ELSE LET q == IF loaded.value.query = Absent THEN Some(<<>>)
                      ELSE loaded.value.query
             IN  [exc |-> "", pattern |-> Verdicts[q]]

(* line 108: except (json.JSONDecodeError, KeyError) *)
row_except_catches(exc) == exc \in {"JSONDecodeError", "KeyError"}

(* a handler that lets the errors of a row through *)
file_except_catches_io_only(exc) == exc = "IOError"

(* line 112: except Exception *)
file_except_catches(exc) == TRUE

(* the return value that drops what the failed file had collected *)
returned_rows_dropped_on_error(rows, exc) == IF exc = "" THEN rows ELSE <<>>

(* line 115: return matching_rows, after an exception as after the loop *)
returned_rows(rows, exc) == rows

----------------------------------------------------------------------------
(* main, lines 141-154: what it does with the list process_csv_file        *)
(* returned                                                                *)

row_copy(pair) ==
    [keys |-> IF MatchedColumn \in Range(pair[1].keys) THEN pair[1].keys
              ELSE Append(pair[1].keys, MatchedColumn),
     props |-> pair[1].props,
     matched_phone_pattern |-> pair[2]]

(* the schema taken from the file at hand whenever it has matches *)
new_fieldnames_last_wins(old, rows) ==
    IF rows # <<>> THEN Some(Append(rows[1][1].keys, MatchedColumn)) ELSE old

(* lines 143-146 *)
new_fieldnames(old, rows) ==
    IF rows # <<>> /\ old = None
    THEN Some(Append(rows[1][1].keys, MatchedColumn))
    ELSE old

(* the rows put in front of those of the earlier files *)
extended_in_front(all, rows) == [k \in 1..Len(rows) |-> row_copy(rows[k])] \o all

(* lines 149-152 *)
extended(all, rows) == all \o [k \in 1..Len(rows) |-> row_copy(rows[k])]

(* process_csv_file ends with the exception exc ("" for the end of the     *)
(* file) while holding rows: line 112 catches and line 113 reports it, or  *)
(* it leaves main uncaught.  The reader and its row end with the call.     *)
Return(rows, exc) ==
    /\ header' = None
    /\ row' = None
    /\ rows_read' = 0
    /\ IF exc # "" /\ ~file_except_catches(exc)
       THEN /\ pc' = "failed"
            /\ error_logged' = ""
            /\ UNCHANGED <<file_index, matching_rows, fieldnames,
                           all_matching_rows>>
       ELSE /\ pc' = "loop"
            /\ error_logged' = exc
            /\ matching_rows' = returned_rows(rows, exc)
            /\ fieldnames' = new_fieldnames(fieldnames, matching_rows')
            /\ all_matching_rows' = extended(all_matching_rows, matching_rows')
            /\ file_index' = file_index + 1

(* The model keeps what it found of the files for lines 161-173, which     *)
(* open them again, and only while they can still run: until a row has     *)
(* matched.  The files are taken not to change during the run.             *)
Found(status) ==
    IF all_matching_rows = <<>>
    THEN [disk EXCEPT ![file_index] = status]
    ELSE NothingKnown

AtFile == pc = "loop" /\ file_index <= NumFiles

----------------------------------------------------------------------------
(* The steps of main's loop over csv_files *)

(* lines 134-136: the file does not exist *)
MissingFile ==
    /\ AtFile
    /\ disk' = Found(Missing)
    /\ file_index' = file_index + 1
    /\ error_logged' = ""
    /\ UNCHANGED <<pc, header, row, rows_read, matching_rows, fieldnames,
                   all_matching_rows, output>>

(* lines 92-96 and 112-115: open() or the read of the first line raises *)
OpenFails ==
    /\ AtFile
    /\ disk' = Found(NoHeader)
    /\ Return(<<>>, "IOError")
    /\ UNCHANGED output

(* lines 92-96: the file opens; it is empty, or has a header line *)
OpenFile ==
    /\ AtFile
    /\ \E h \in {None} \cup {Some(x) : x \in Headers} :
          /\ header' = h
          /\ disk' = Found(IF h = None THEN NoHeader ELSE WithHeader(h[2]))
    /\ pc' = "rows"
    /\ rows_read' = 0
    /\ matching_rows' = <<>>
    /\ error_logged' = ""
    /\ UNCHANGED <<file_index, row, fieldnames, all_matching_rows, output>>

(* lines 98-110: the reader yields a row *)
ReadRow ==
    /\ pc = "rows"
    /\ header # None
    /\ rows_read < MaxRows
    /\ \E cell \in CellsOf(header[2]) :
          LET r == LogRow(header[2], cell)
              body == row_body(r)
          IN  /\ body.pattern # None =>
                    Len(all_matching_rows) + Len(matching_rows) < MaxMatches
              /\ IF body.exc = "" \/ row_except_catches(body.exc)
                 THEN /\ row' = Some(r)
                      /\ rows_read' = rows_read + 1
                      /\ matching_rows' =
                            IF body.pattern # None
                            THEN Append(matching_rows, <<r, body.pattern[2]>>)
                            ELSE matching_rows
                      /\ UNCHANGED <<pc, file_index, header, error_logged,
                                     fieldnames, all_matching_rows>>
                 ELSE Return(matching_rows, body.exc)
    /\ UNCHANGED <<disk, output>>

(* lines 98 and 112-115: reading on raises (a decoding or I/O error) *)
ReadError ==
    /\ pc = "rows"
    /\ header # None
    /\ Return(matching_rows, "IOError")
    /\ UNCHANGED <<disk, output>>

(* lines 98 and 115: the file has no more rows *)
EndOfFile ==
    /\ pc = "rows"
    /\ Return(matching_rows, "")
    /\ UNCHANGED <<disk, output>>

----------------------------------------------------------------------------
(* main, lines 156-189: the output file *)

(* the fallback that looks at the first existing file only *)
RECURSIVE header_of_first_existing(_)
header_of_first_existing(i) ==
    IF i > NumFiles THEN None
    ELSE IF disk[i][1] = "Header"
    THEN Some(Append(disk[i][2], MatchedColumn))
    ELSE IF disk[i][1] = "NoHeader" THEN None
    ELSE header_of_first_existing(i + 1)

(* lines 163-173: the first file, from csv_files[i] on, that exists and    *)
(* whose header can be read gives the schema; a file that raises is passed *)
RECURSIVE fallback_fieldnames(_)
fallback_fieldnames(i) ==
    IF i > NumFiles THEN None
    ELSE IF disk[i][1] = "Header"
    THEN Some(Append(disk[i][2], MatchedColumn))
    ELSE fallback_fieldnames(i + 1)

(* the writer that leaves out what the schema does not name *)
wrong_fields_ignored(rowdict, names) == {}

(* csv.DictWriter._dict_to_list: the keys of the row the schema lacks *)
wrong_fields(rowdict, names) == Range(rowdict.keys) \ Range(names)

(* csv.DictWriter._dict_to_list: the cells in schema order, restval '' for *)
(* a column the row lacks                                                  *)
dict_to_list(rowdict, names) ==
    [k \in 1..Len(names) |->
        IF names[k] \notin Range(rowdict.keys) THEN <<"restval", "">>
        ELSE IF names[k] = MatchedColumn
        THEN <<"pattern", rowdict.matched_phone_pattern>>
        ELSE IF names[k] = PropsColumn THEN <<"props", rowdict.props>>
        ELSE <<"cell", names[k]>>]

(* writer.writerows: the rows written before the first one that raises *)
written_before_error(rows, names) ==
    LET ok == {n \in 0..Len(rows) :
                  \A k \in 1..n : wrong_fields(rows[k], names) = {}}
    IN  [k \in 1..Max(ok) |-> dict_to_list(rows[k], names)]

WriteOutput ==
    /\ pc = "loop"
    /\ file_index = NumFiles + 1
    /\ IF all_matching_rows = <<>>
       THEN /\ fieldnames' = IF fieldnames # None THEN fieldnames
                             ELSE fallback_fieldnames(1)
            /\ output' = Some([header |-> IF fieldnames' # None
                                          THEN fieldnames'[2]
                                          ELSE DefaultHeader,
                               rows |-> <<>>])
            /\ pc' = "done"
       ELSE /\ output' = Some([header |-> fieldnames[2],
                               rows |-> written_before_error(
                                            all_matching_rows, fieldnames[2])])
            /\ pc' = IF Len(output'[2].rows) = Len(all_matching_rows)
                     THEN "done" ELSE "failed"
            /\ UNCHANGED fieldnames
    /\ UNCHANGED <<file_index, disk, header, row, rows_read, matching_rows,
                   error_logged, all_matching_rows>>

----------------------------------------------------------------------------
(* The run of main *)

ClassifierIdle ==
    /\ query_text = None
    /\ result = None
    /\ cpc = "idle"

Init ==
    /\ ClassifierIdle
    /\ pc = "loop"
    /\ file_index = 1
    /\ disk = NothingKnown
    /\ header = None
    /\ row = None
    /\ rows_read = 0
    /\ matching_rows = <<>>
    /\ error_logged = ""
    /\ fieldnames = None
    /\ all_matching_rows = <<>>
    /\ output = None

Next ==
    \/ MissingFile /\ UNCHANGED cvars
    \/ OpenFails /\ UNCHANGED cvars
    \/ OpenFile /\ UNCHANGED cvars
    \/ ReadRow /\ UNCHANGED cvars
    \/ ReadError /\ UNCHANGED cvars
    \/ EndOfFile /\ UNCHANGED cvars
    \/ WriteOutput /\ UNCHANGED cvars

Spec == Init /\ [][Next]_vars

----------------------------------------------------------------------------
(* The classifier on its own: the inputs are a head followed by at most    *)
(* MaxPhrases phrases, and the absent text                                 *)

MaxPhrases == 2

Heads == {
    <<>>,
    <<"s","e","l","e","c","t"," ">>,
    <<"s","e","l","e","c","t"," ","*"," ","f","r","o","m"," ">>,
    <<"S","E","L","E","C","T"," "," ","*"," "," ","F","R","O","M"," ">>,
    <<"u","p","d","a","t","e"," ","c","o","n","t","a","c","t","s"," ","s","e","t"," ">>,
    <<"s","e","l","e","c","t","e","d"," ">>,
    <<"p","r","e","s","e","l","e","c","t"," ","*"," ","f","r","o","m"," ">> }

Phrases == {
    <<"p","h","o","n","e">>, <<"P","h","o","n","e",","," ">>, <<"T","o","_","C","o","n","t","a","c","t">>, <<"t","o","_","c","o","n","t","a","c","t","_","o","r","i","g">>,
    <<" ","f","r","o","m"," ","x">>, <<"n","a","m","e"," ","f","r","o","m"," ">>, <<"e","m","p","l","o","y","e","e","s">>, <<"c","o","n","t","a","c","t","s">>, <<"\"","C","o","n","t","a","c","t","s","\"">>,
    <<Backtick,"s","e","n","d","e","r","s">>, <<"u","s","e","r","_">>, <<"o","_","c","o","n","t","a","c","t">>, <<"=","1">>, <<"\t">> }

QueryTexts ==
    {h \o Concat(ps) : h \in Heads,
                       ps \in UNION {[1..n -> Phrases] : n \in 0..MaxPhrases}}

MainIdle ==
    /\ pc = "idle"
    /\ file_index = 1
    /\ disk = NothingKnown
    /\ header = None
    /\ row = None
    /\ rows_read = 0
    /\ matching_rows = <<>>
    /\ error_logged = ""
    /\ fieldnames = None
    /\ all_matching_rows = <<>>
    /\ output = None

ClassifierInit ==
    /\ query_text \in {None} \cup {Some(t) : t \in QueryTexts}
    /\ result = None
    /\ cpc = "call"
    /\ MainIdle

Classify ==
    /\ cpc = "call"
    /\ result' = find_phone_pattern_in_query(query_text)
    /\ cpc' = "ret"
    /\ UNCHANGED query_text

ClassifierNext == Classify /\ UNCHANGED mvars

ClassifierSpec == ClassifierInit /\ [][ClassifierNext]_vars

----------------------------------------------------------------------------
(* The classifier's properties, under ClassifierSpec *)

Returned == cpc = "ret"
Text == query_text[2]

(* the text holds "select" as a whole word, in any case *)
ContainsSelectWord(s) ==
    \E i \in 1..Len(s) :
        /\ i + 5 <= Len(s)
        /\ lower(SubSeq(s, i, i + 5)) = SelectLit
        /\ i = 1 \/ s[i - 1] \notin WordChars
        /\ i + 5 = Len(s) \/ s[i + 6] \notin WordChars

ColumnHits(s) ==
    {k \in 1..Len(PHONE_PATTERNS) : ColumnSearch(PHONE_PATTERNS[k], s) # NoMatch}

IsTableResult(r) ==
    /\ r # None
    /\ Len(r[2]) >= Len(SelectStarFrom)
    /\ SubSeq(r[2], 1, Len(SelectStarFrom)) = SelectStarFrom

(* C7: when a text with the select word holds column names, the result is  *)
(* the very text the earliest pattern of the list matched, in the casing   *)
(* of the query, wherever later patterns match; the result is of the       *)
(* "SELECT * from" kind only when no column pattern matches.               *)
C7_ListOrderPriority ==
    Returned /\ query_text # None /\ ContainsSelectWord(Text) =>
        /\ ColumnHits(Text) # {} =>
              \E k \in ColumnHits(Text) :
                  /\ \A h \in ColumnHits(Text) : k <= h
                  /\ LET m == ColumnSearch(PHONE_PATTERNS[k], Text)
                     IN  result = Some(SubSeq(Text, m[1] + 1, m[2]))
        /\ IsTableResult(result) => ColumnHits(Text) = {}
        /\ Text = <<"s","e","l","e","c","t"," ","t","o","_","c","o","n","t","a","c","t","_","o","r","i","g"," ","f","r","o","m"," ","x">>
              => result = Some(<<"t","o","_","c","o","n","t","a","c","t","_","o","r","i","g">>)
        /\ Text = <<"s","e","l","e","c","t"," ","P","h","o","n","e",","," ","T","o","_","C","o","n","t","a","c","t">> => result = Some(<<"T","o","_","C","o","n","t","a","c","t">>)

C7_Witness ==
    /\ Returned
    /\ query_text = Some(<<"s","e","l","e","c","t"," ","P","h","o","n","e",","," ","T","o","_","C","o","n","t","a","c","t">>)
    /\ result = Some(<<"T","o","_","C","o","n","t","a","c","t">>)

(* C8: a text that is absent, empty or without the whole word select is    *)
(* classified absent, whatever else it holds.                              *)
C8_NoSelectIsAbsent ==
    Returned /\ (query_text = None \/ ~ContainsSelectWord(Text))
        => result = None

C8_Witness ==
    /\ Returned
    /\ query_text = Some(<<"u","p","d","a","t","e"," ","c","o","n","t","a","c","t","s"," ","s","e","t"," ","p","h","o","n","e","=","1">>)
    /\ ColumnHits(Text) # {}
    /\ result = None

(* the tokens that follow a "from": after the white space and an optional  *)
(* quote, the longest run of characters that are no white space, comma or  *)
(* quote, which the same quote must close; <<start, end>> offsets          *)
FromTokens(s) ==
    {t \in (0..Len(s)) \X (0..Len(s)) :
        /\ t[1] < t[2]
        /\ \A j \in (t[1] + 1)..t[2] : IsTokenChar(s[j])
        /\ t[2] = Len(s) \/ ~IsTokenChar(s[t[2] + 1])
        /\ \E i \in 0..t[1], q \in {0, 1} :
              /\ Boundary(s, i)
              /\ LitAt(s, i, FromLit)
              /\ i + Len(FromLit) < t[1] - q
              /\ \A j \in (i + Len(FromLit) + 1)..(t[1] - q) :
                    s[j] \in SpaceChars
              /\ q = 1 => /\ s[t[1]] \in QuoteChars
                          /\ t[2] < Len(s)
                          /\ s[t[2] + 1] = s[t[1]]}

(* the table pattern appears inside the token *)
TokenNames(tp, s, t) ==
    \E a \in t[1]..t[2], b \in t[1]..t[2] : TableLitMatch(tp, s, a, b)

TablesNamed(s) ==
    {k \in 1..Len(PHONE_TABLES) :
        \E t \in FromTokens(s) : TokenNames(PHONE_TABLES[k], s, t)}

(* C9: with no column name in the text, the result is "SELECT * from"      *)
(* and the whole token after a from that names the earliest table pattern  *)
(* of the list, when the text holds "select *"; it is absent when the text *)
(* holds no "select *" or no token after a from names a table.             *)
C9_TableFallback ==
    Returned /\ query_text # None /\ ContainsSelectWord(Text)
             /\ ColumnHits(Text) = {} =>
        IF has_select_star(lower(Text)) /\ TablesNamed(Text) # {}
        THEN \E t \in FromTokens(Text) :
                /\ TokenNames(PHONE_TABLES[Min(TablesNamed(Text))], Text, t)
                /\ result = Some(SelectStarFrom
                                   \o SubSeq(Text, t[1] + 1, t[2]))
        ELSE result = None

(* the same, for the texts without a TAB *)
C9_TableFallbackWithoutTab ==
    (query_text # None /\ "\t" \notin Range(Text)) => C9_TableFallback

C9_Witness ==
    /\ Returned
    /\ query_text = Some(<<"S","E","L","E","C","T"," "," ","*"," "," ","F","R","O","M"," ","\"","C","o","n","t","a","c","t","s","\"">>)
    /\ result = Some(<<"S","E","L","E","C","T"," ","*"," ","f","r","o","m"," ","C","o","n","t","a","c","t","s">>)

----------------------------------------------------------------------------
(* The consolidator's properties, under Spec *)

(* the output rows the matches of one file become *)
StampedRows(rows) ==
    [k \in 1..Len(rows) |->
        [keys |-> Append(rows[k][1].keys, MatchedColumn),
         props |-> rows[k][1].props,
         matched_phone_pattern |-> rows[k][2]]]

IsPrefix(s, t) == Len(s) <= Len(t) /\ SubSeq(t, 1, Len(s)) = s

FileReturns == pc = "rows" /\ pc' = "loop"

(* C1 as stated: a file whose processing failed returns no match and adds  *)
(* none to the output.                                                     *)
C1_FailedFileIsFullySkipped ==
    pc = "loop" /\ error_logged = "IOError" => matching_rows = <<>>

(* C1: when the processing of a file fails, the rows after the failure are *)
(* abandoned and the matches collected before it are returned and appended *)
(* to the output sequence, and main goes on to the next file.              *)
C1_MatchesBeforeFailureAreKept ==
    [][FileReturns /\ error_logged' # "" =>
          /\ matching_rows' = matching_rows
          /\ all_matching_rows' =
                all_matching_rows \o StampedRows(matching_rows)
          /\ file_index' = file_index + 1]_vars

C1_Witness ==
    /\ pc = "loop"
    /\ error_logged = "IOError"
    /\ matching_rows # <<>>
    /\ all_matching_rows = StampedRows(matching_rows)

(* C2: no file ends on the failure of one of its rows: a file is left at   *)
(* its end or on an error of the read itself.                              *)
C2_RowFailureSkipsOnlyThatRow ==
    pc = "loop" => error_logged \in {"", "IOError"}

(* C3: the schema is unset as long as no row has matched; it is set by the *)
(* return of the first file with a match, to the header of that file and   *)
(* the appended column; and no later file changes it.                      *)
C3_SchemaSetOnceByFirstMatch ==
    /\ [](output = None =>
             /\ fieldnames = None <=> all_matching_rows = <<>>
             /\ fieldnames # None =>
                   fieldnames[2] = all_matching_rows[1].keys)
    /\ [][fieldnames # None => fieldnames' = fieldnames]_vars
    /\ [][fieldnames = None /\ fieldnames' # None /\ output' = None =>
             /\ FileReturns
             /\ matching_rows' # <<>>
             /\ fieldnames' = Some(Append(header[2], MatchedColumn))]_vars

C3_Witness ==
    /\ pc = "loop"
    /\ fieldnames = Some(Append(Header2, MatchedColumn))
    /\ Len(all_matching_rows) = 2
    /\ all_matching_rows[2].keys = Append(Header1, MatchedColumn)

(* the classifier finds a pattern in the query of the row *)
RowMatches(r) ==
    /\ PropsColumn \in Range(r.keys)
    /\ r.props.json = "object"
    /\ r.props.query # Absent
    /\ Verdicts[r.props.query] # None

(* C4: a row read is kept, with the pattern found in its own query, when   *)
(* the classifier finds one, and is not kept otherwise; the rows a file    *)
(* returns go behind those of the earlier files, in the order read; and    *)
(* the written rows carry their own pattern.                               *)
C4_MatchedRowsInOrder ==
    /\ [][rows_read' = rows_read + 1 =>
             matching_rows' =
                 IF RowMatches(row'[2])
                 THEN Append(matching_rows,
                             <<row'[2], Verdicts[row'[2].props.query][2]>>)
                 ELSE matching_rows]_vars
    /\ [][IF FileReturns
          THEN all_matching_rows' =
                  all_matching_rows \o StampedRows(matching_rows)
          ELSE all_matching_rows' = all_matching_rows]_vars
    /\ [](\A k \in 1..Len(all_matching_rows) :
             /\ RowMatches(all_matching_rows[k])
             /\ Verdicts[all_matching_rows[k].props.query] =
                   Some(all_matching_rows[k].matched_phone_pattern))
    /\ [](pc = "done" /\ all_matching_rows # <<>> =>
             /\ Len(output[2].rows) = Len(all_matching_rows)
             /\ \A k \in 1..Len(all_matching_rows) :
                   output[2].rows[k][Len(fieldnames[2])] =
                       <<"pattern", all_matching_rows[k].matched_phone_pattern>>)

C4_Witness ==
    /\ pc = "done"
    /\ Len(output[2].rows) = 2
    /\ all_matching_rows[1].matched_phone_pattern = <<"p","h","o","n","e">>
    /\ all_matching_rows[2].matched_phone_pattern = <<"S","E","L","E","C","T"," ","*"," ","f","r","o","m"," ","c","o","n","t","a","c","t","s">>
    /\ all_matching_rows[1].keys # all_matching_rows[2].keys

Existing == {i \in 1..NumFiles : disk[i][1] \in {"Header", "NoHeader"}}
Readable == {i \in 1..NumFiles : disk[i][1] = "Header"}
NoMatchWritten == output # None /\ all_matching_rows = <<>>

(* C6 as stated: with no match, the output is the header of the first      *)
(* existing file and the appended column, or the default header when no    *)
(* file exists.                                                            *)
C6_HeaderOfFirstExistingFile ==
    NoMatchWritten =>
        /\ pc = "done"
        /\ output[2].rows = <<>>
        /\ IF Existing = {} THEN output[2].header = DefaultHeader
           ELSE /\ disk[Min(Existing)][1] = "Header"
                /\ output[2].header =
                      Append(disk[Min(Existing)][2], MatchedColumn)

(* C6: with no match, the output is the header of the first file that      *)
(* exists and has a header that can be read, and the appended column, or   *)
(* the default header when there is no such file.                          *)
C6_HeaderOfFirstReadableFile ==
    NoMatchWritten =>
        /\ pc = "done"
        /\ output[2].rows = <<>>
        /\ output[2].header =
              IF Readable = {} THEN DefaultHeader
              ELSE Append(disk[Min(Readable)][2], MatchedColumn)

C6_Witness ==
    /\ NoMatchWritten
    /\ disk[1] = Missing
    /\ disk[2] = NoHeader
    /\ disk[3] = WithHeader(Header2)
    /\ output[2].header = Append(Header2, MatchedColumn)

(* the rows with a key the schema lacks *)
RowsOutsideSchema ==
    {k \in 1..Len(all_matching_rows) :
        ~(Range(all_matching_rows[k].keys) \subseteq Range(fieldnames[2]))}

(* C10: the write puts the schema as the header; it fails at the first row *)
(* with a key the schema lacks, with the rows before it written, and ends  *)
(* well when there is none; a written row has an empty cell exactly where  *)
(* it lacks a column of the schema.                                        *)
C10_SchemaMismatchFailsTheWrite ==
    output # None /\ all_matching_rows # <<>> =>
        LET names == fieldnames[2]
            written == output[2].rows
        IN  /\ output[2].header = names
            /\ RowsOutsideSchema # {} =>
                  /\ pc = "failed"
                  /\ Len(written) = Min(RowsOutsideSchema) - 1
            /\ RowsOutsideSchema = {} =>
                  /\ pc = "done"
                  /\ Len(written) = Len(all_matching_rows)
            /\ \A k \in 1..Len(written) :
                  /\ Len(written[k]) = Len(names)
                  /\ \A c \in 1..Len(names) :
                        written[k][c][1] = "restval" <=>
                            names[c] \notin Range(all_matching_rows[k].keys)

C10_Witness ==
    /\ pc = "failed"
    /\ output[2].header = Append(Header1, MatchedColumn)
    /\ Len(output[2].rows) = 1
    /\ Len(all_matching_rows) = 2

====
